---- MODULE Spec2Model ----
(***************************************************************************)
(* Mark-and-sweep collector of src/main.rs (a port of "Baby's First        *)
(* Garbage Collector"): a VM with a root stack, a heap record and a        *)
(* collection threshold.  Objects are Rc cells; an object's identity is    *)
(* its allocation number, and `objs' is the store of every cell allocated  *)
(* so far (an Rc cell lives as long as something refers to it, whether or  *)
(* not the heap record still lists it).                                    *)
(***************************************************************************)
EXTENDS Integers, Sequences, FiniteSets, TLC

\* ---------------------------------------------------------------- bounds
MaxObjs == 6      \* allocations per run
MaxMut == 1       \* pair-field mutations per run
MaxTestObjs == 6  \* allocations of a run that ends with its first gc
MaxTestMut == 2   \* pair-field mutations of such a run
MaxFreshObjs == 11 \* allocations of a run that never calls gc itself
MarkCap == 2      \* markCount stops counting here

\* ------------------------------------------------------------- constants
INITIAL_GC_THRESHOLD == 10

VARIABLES
  stack,      \* VM.stack: Vec<Sobject>, last element is the top
  heap,       \* VM.heap:  Vec<Sobject>
  heap_max,   \* VM.heap_max
  objs,       \* the Rc cells: objs[o] = [marked, val]
  panicked,   \* the program has aborted in unwrap()
  op,         \* the last operation performed
  ret,        \* the handle the last operation returned (0: none)
  lastgc,     \* the collection run by the last operation, if any: the VM
              \* when it began (pre) and returned (post), and the value of
              \* lastLive when it began (prior)
  lastLive,   \* heap.len() on return of the most recent gc (-1: none yet)
  muts,       \* number of pair-field mutations so far
  pc,         \* "idle", or "mark" while a stepwise gc is in its mark phase
  pending,    \* calls of Object::mark still to be made, next call first
  len,        \* the local `len' of a stepwise gc
  markCount   \* times each mark bit was set in the current mark phase

vars == <<stack, heap, heap_max, objs, panicked, op, ret, lastgc, lastLive,
          muts, pc, pending, len, markCount>>

\* ------------------------------------------------------------ data model
\* the u32 payload of Vobject::Int; no operation of the VM reads it
IntVals == {0}

Vobject_Int(n) == [tag |-> "Int", n |-> n, head |-> 0, tail |-> 0]

Vobject_Pair(h, t) == [tag |-> "Pair", n |-> 0, head |-> h, tail |-> t]

Range(s) == {s[i] : i \in DOMAIN s}

VM_new ==
  [stack |-> <<>>, heap |-> <<>>, heap_max |-> INITIAL_GC_THRESHOLD,
   objs |-> <<>>]

\* the VM together with the cells it refers to, as one value
vm == [stack |-> stack, heap |-> heap, heap_max |-> heap_max, objs |-> objs]

\* no collection: the value of lastgc after an operation that ran none
NoGc == [ran |-> FALSE, pre |-> VM_new, post |-> VM_new]

\* -------------------------------------------------------------- Object::mark
\* Object::mark that does not descend into the head of a pair
RECURSIVE Object_mark_tail_only(_, _)
Object_mark_tail_only(os, obj) ==
  IF os[obj].marked THEN os
  ELSE LET os1 == [os EXCEPT ![obj].marked = TRUE]
       IN IF os1[obj].val.tag = "Pair"
          THEN Object_mark_tail_only(os1, os1[obj].val.tail)
          ELSE os1

RECURSIVE Object_mark(_, _)
Object_mark(os, obj) ==
  IF os[obj].marked THEN os
  ELSE LET os1 == [os EXCEPT ![obj].marked = TRUE]
       IN IF os1[obj].val.tag = "Pair"
          THEN Object_mark(Object_mark(os1, os1[obj].val.head),
                           os1[obj].val.tail)
          ELSE os1

\* the loop of VM::mark over stack[i..]
RECURSIVE VM_mark_from(_, _, _)
VM_mark_from(os, st, i) ==
  IF i > Len(st) THEN os
  ELSE VM_mark_from(Object_mark(os, st[i]), st, i + 1)

\* VM::mark that takes its roots from the heap instead of the stack
VM_mark_heap_roots(v) ==
  [v EXCEPT !.objs = VM_mark_from(v.objs, v.heap, 1)]

VM_mark(v) == [v EXCEPT !.objs = VM_mark_from(v.objs, v.stack, 1)]

\* sweep whose retain also keeps an object that a stack entry or a pair
\* recorded in heap still refers to (a reference count above one)
sweep_refcount(v) ==
  LET held(o) == \/ v.objs[o].marked
                 \/ o \in Range(v.stack)
                 \/ \E p \in Range(v.heap) :
                      /\ v.objs[p].val.tag = "Pair"
                      /\ o \in {v.objs[p].val.head, v.objs[p].val.tail}
      kept == SelectSeq(v.heap, held)
  IN [v EXCEPT !.heap = kept,
               !.objs = [o \in DOMAIN v.objs |->
                           IF o \in Range(kept)
                           THEN [v.objs[o] EXCEPT !.marked = FALSE]
                           ELSE v.objs[o]]]

\* sweep whose retain keeps the unmarked objects
sweep_unmarked(v) ==
  LET kept == SelectSeq(v.heap, LAMBDA o : ~v.objs[o].marked)
  IN [v EXCEPT !.heap = kept,
               !.objs = [o \in DOMAIN v.objs |->
                           IF o \in Range(kept)
                           THEN [v.objs[o] EXCEPT !.marked = FALSE]
                           ELSE v.objs[o]]]

\* sweep that leaves the mark bits of the retained objects set
sweep_no_reset(v) ==
  LET kept == SelectSeq(v.heap, LAMBDA o : v.objs[o].marked)
  IN [v EXCEPT !.heap = kept]

sweep(v) ==
  LET kept == SelectSeq(v.heap, LAMBDA o : v.objs[o].marked)
  IN [v EXCEPT !.heap = kept,
               !.objs = [o \in DOMAIN v.objs |->
                           IF o \in Range(kept)
                           THEN [v.objs[o] EXCEPT !.marked = FALSE]
                           ELSE v.objs[o]]]

\* gc that sets the threshold to the length without doubling it
gc_no_double(v) ==
  LET length == Len(v.heap)
  IN [sweep(VM_mark(v)) EXCEPT !.heap_max = length]

\* gc that sets the threshold to twice the length after the sweep
gc_after_sweep(v) ==
  LET v1 == sweep(VM_mark(v))
  IN [v1 EXCEPT !.heap_max = Len(v1.heap) * 2]

gc(v) ==
  LET length == Len(v.heap)
  IN [sweep(VM_mark(v)) EXCEPT !.heap_max = length * 2]

\* one call of Object::mark without the return on a marked object
Object_mark_call_no_return(os, pend) ==
  LET obj == Head(pend)
  IN [objs |-> [os EXCEPT ![obj].marked = TRUE],
      pending |-> (IF os[obj].val.tag = "Pair"
                   THEN <<os[obj].val.head, os[obj].val.tail>>
                   ELSE <<>>) \o Tail(pend),
      set |-> TRUE]

\* One call of Object::mark taken from the front of the pending calls: the
\* calls it makes on the children are put in front of the calls that remain
\* (the recursion of Object::mark and the loop of VM::mark, one call a step).
Object_mark_call(os, pend) ==
  LET obj == Head(pend)
  IN IF os[obj].marked
     THEN [objs |-> os, pending |-> Tail(pend), set |-> FALSE]
     ELSE [objs |-> [os EXCEPT ![obj].marked = TRUE],
           pending |-> (IF os[obj].val.tag = "Pair"
                        THEN <<os[obj].val.head, os[obj].val.tail>>
                        ELSE <<>>) \o Tail(pend),
           set |-> TRUE]

\* ---------------------------------------------------------------- Object::new
\* Object::new that records the new object before the threshold check
Object_new_push_first(v, val) ==
  LET id   == Len(v.objs) + 1
      v0   == [v EXCEPT !.objs = Append(@, [marked |-> FALSE, val |-> val]),
                        !.heap = Append(@, id)]
      trig == Len(v.heap) >= v.heap_max
      v1   == IF trig THEN gc(v0) ELSE v0
  IN [vm  |-> v1,
      obj |-> id,
      g   |-> IF trig THEN [ran |-> TRUE, pre |-> v, post |-> v1] ELSE NoGc]

\* Object::new without the threshold check
Object_new_no_gc(v, val) ==
  LET id == Len(v.objs) + 1
  IN [vm  |-> [v EXCEPT !.objs = Append(@, [marked |-> FALSE, val |-> val]),
                        !.heap = Append(@, id)],
      obj |-> id,
      g   |-> NoGc]

\* Object::new that collects only when heap.len() exceeds heap_max
Object_new_gt(v, val) ==
  LET trig == Len(v.heap) > v.heap_max
      v1   == IF trig THEN gc(v) ELSE v
      id   == Len(v1.objs) + 1
  IN [vm  |-> [v1 EXCEPT !.objs = Append(@, [marked |-> FALSE, val |-> val]),
                         !.heap = Append(@, id)],
      obj |-> id,
      g   |-> IF trig THEN [ran |-> TRUE, pre |-> v, post |-> v1] ELSE NoGc]

Object_new(v, val) ==
  LET trig == Len(v.heap) >= v.heap_max
      v1   == IF trig THEN gc(v) ELSE v
      id   == Len(v1.objs) + 1
  IN [vm  |-> [v1 EXCEPT !.objs = Append(@, [marked |-> FALSE, val |-> val]),
                         !.heap = Append(@, id)],
      obj |-> id,
      g   |-> IF trig THEN [ran |-> TRUE, pre |-> v, post |-> v1] ELSE NoGc]

\* ------------------------------------------------------------ VM operations
\* pop that also takes the popped object off the heap record
pop_and_free(v) ==
  [vm  |-> [v EXCEPT !.stack = SubSeq(@, 1, Len(@) - 1),
                     !.heap = SelectSeq(@, LAMBDA o : o # v.stack[Len(v.stack)])],
   obj |-> v.stack[Len(v.stack)]]

pop(v) ==
  [vm  |-> [v EXCEPT !.stack = SubSeq(@, 1, Len(@) - 1)],
   obj |-> v.stack[Len(v.stack)]]

push_int(v, n) ==
  LET r == Object_new(v, Vobject_Int(n))
  IN [vm |-> [r.vm EXCEPT !.stack = Append(@, r.obj)], obj |-> r.obj,
      g |-> r.g]

\* push_pair that takes the first pop as head and the second as tail
push_pair_swapped(v) ==
  LET t == pop(v)
      h == pop(t.vm)
      r == Object_new(h.vm, Vobject_Pair(t.obj, h.obj))
  IN [vm |-> [r.vm EXCEPT !.stack = Append(@, r.obj)], obj |-> r.obj,
      g |-> r.g]

push_pair(v) ==
  LET t == pop(v)
      h == pop(t.vm)
      r == Object_new(h.vm, Vobject_Pair(h.obj, t.obj))
  IN [vm |-> [r.vm EXCEPT !.stack = Append(@, r.obj)], obj |-> r.obj,
      g |-> r.g]

\* ------------------------------------------------------------- reachability
Children(os, o) ==
  IF os[o].val.tag = "Pair" THEN {os[o].val.head, os[o].val.tail} ELSE {}

RECURSIVE ReachFrom(_, _)
ReachFrom(os, S) ==
  LET N == S \cup UNION {Children(os, o) : o \in S}
  IN IF N = S THEN S ELSE ReachFrom(os, N)

\* the objects reachable from the stack of v through Pair edges
Reach(v) == ReachFrom(v.objs, Range(v.stack))

\* ------------------------------------------------------------------ actions
\* the record kept in lastgc for the collection g of an operation
Ran(g, prior) ==
  [ran |-> g.ran, pre |-> g.pre, post |-> g.post,
   prior |-> IF g.ran THEN prior ELSE -1]

Init ==
  /\ stack = VM_new.stack
  /\ heap = VM_new.heap
  /\ heap_max = VM_new.heap_max
  /\ objs = VM_new.objs
  /\ panicked = FALSE
  /\ op = "new"
  /\ ret = 0
  /\ lastgc = Ran(NoGc, -1)
  /\ lastLive = -1
  /\ muts = 0
  /\ pc = "idle"
  /\ pending = <<>>
  /\ len = 0
  /\ markCount = <<>>

Ready == ~panicked /\ pc = "idle"

Commit(v) ==
  /\ stack' = v.stack
  /\ heap' = v.heap
  /\ heap_max' = v.heap_max
  /\ objs' = v.objs

Record(g) ==
  /\ lastgc' = Ran(g, lastLive)
  /\ lastLive' = IF g.ran THEN Len(g.post.heap) ELSE lastLive

PushInt(max) ==
  /\ Ready
  /\ Len(objs) < max
  /\ \E n \in IntVals :
       LET r == push_int(vm, n)
       IN Commit(r.vm) /\ Record(r.g) /\ ret' = r.obj
  /\ op' = "push_int"
  /\ UNCHANGED <<panicked, muts, pc, pending, len, markCount>>

PushPair(max) ==
  /\ Ready
  /\ Len(objs) < max
  /\ Len(stack) >= 2
  /\ LET r == push_pair(vm)
     IN Commit(r.vm) /\ Record(r.g) /\ ret' = r.obj
  /\ op' = "push_pair"
  /\ UNCHANGED <<panicked, muts, pc, pending, len, markCount>>

\* push_pair with fewer than two entries: one of its pops unwraps None
PushPairPanic ==
  /\ Ready
  /\ Len(stack) < 2
  /\ stack' = <<>>
  /\ panicked' = TRUE
  /\ op' = "push_pair"
  /\ ret' = 0
  /\ lastgc' = Ran(NoGc, -1)
  /\ UNCHANGED <<heap, heap_max, objs, lastLive, muts, pc, pending, len,
                 markCount>>

Pop ==
  /\ Ready
  /\ Len(stack) >= 1
  /\ LET r == pop(vm)
     IN Commit(r.vm) /\ ret' = r.obj
  /\ op' = "pop"
  /\ lastgc' = Ran(NoGc, -1)
  /\ UNCHANGED <<panicked, lastLive, muts, pc, pending, len, markCount>>

\* pop on an empty stack that returns no object instead of panicking
PopSentinel ==
  /\ Ready
  /\ Len(stack) = 0
  /\ op' = "pop"
  /\ ret' = 0
  /\ lastgc' = Ran(NoGc, -1)
  /\ UNCHANGED <<stack, heap, heap_max, objs, panicked, lastLive, muts, pc,
                 pending, len, markCount>>

\* pop on an empty stack: Vec::pop gives None and unwrap panics
PopPanic ==
  /\ Ready
  /\ Len(stack) = 0
  /\ panicked' = TRUE
  /\ op' = "pop"
  /\ ret' = 0
  /\ lastgc' = Ran(NoGc, -1)
  /\ UNCHANGED <<stack, heap, heap_max, objs, lastLive, muts, pc, pending,
                 len, markCount>>

Gc ==
  /\ Ready
  /\ LET v == gc(vm)
     IN Commit(v) /\ Record([ran |-> TRUE, pre |-> vm, post |-> v])
  /\ op' = "gc"
  /\ ret' = 0
  /\ UNCHANGED <<panicked, muts, pc, pending, len, markCount>>

\* the caller repoints the tail of a pair it can reach to an object it can
\* reach (the mutation test4 uses to build cycles)
SetTail(max) ==
  /\ Ready
  /\ muts < max
  /\ \E a \in Reach(vm), x \in Reach(vm) :
       /\ objs[a].val.tag = "Pair"
       /\ objs[a].val.tail # x
       /\ objs' = [objs EXCEPT ![a].val.tail = x]
  /\ muts' = muts + 1
  /\ op' = "set_tail"
  /\ ret' = 0
  /\ lastgc' = Ran(NoGc, -1)
  /\ UNCHANGED <<stack, heap, heap_max, panicked, lastLive, pc, pending, len,
                 markCount>>

\* gc taken one call of Object::mark at a time
GcBegin ==
  /\ Ready
  /\ pc' = "mark"
  /\ len' = Len(heap)
  /\ pending' = stack
  /\ markCount' = [o \in DOMAIN objs |-> 0]
  /\ lastgc' = [ran |-> FALSE, pre |-> vm, post |-> vm, prior |-> -1]
  /\ op' = "gc"
  /\ ret' = 0
  /\ UNCHANGED <<stack, heap, heap_max, objs, panicked, lastLive, muts>>

MarkStep ==
  /\ pc = "mark"
  /\ pending # <<>>
  /\ LET r == Object_mark_call(objs, pending)
     IN /\ objs' = r.objs
        /\ pending' = r.pending
        /\ markCount' = IF r.set
                        THEN [markCount EXCEPT ![Head(pending)] =
                                IF @ < MarkCap THEN @ + 1 ELSE @]
                        ELSE markCount
  /\ UNCHANGED <<stack, heap, heap_max, panicked, op, ret, lastgc, lastLive,
                 muts, pc, len>>

GcEnd ==
  /\ pc = "mark"
  /\ pending = <<>>
  /\ LET v == [sweep(vm) EXCEPT !.heap_max = len * 2]
     IN Commit(v) /\ Record([ran |-> TRUE, pre |-> lastgc.pre, post |-> v])
  /\ pc' = "idle"
  /\ UNCHANGED <<panicked, op, ret, muts, pending, len, markCount>>

Next ==
  \/ PushInt(MaxObjs)
  \/ PushPair(MaxObjs)
  \/ PushPairPanic
  \/ Pop
  \/ PopPanic
  \/ Gc
  \/ SetTail(MaxMut)

Spec == Init /\ [][Next]_vars

\* --------------------------------------------------------------------------
\* Runs of the shape of test1..test4: a structure is built with push_int,
\* push_pair, pop and field mutations, then gc is called once and the run ends.
Building == op # "gc"

TestPushInt == Building /\ PushInt(MaxTestObjs)

TestPushPair == Building /\ PushPair(MaxTestObjs)

TestPushPairPanic == Building /\ PushPairPanic

TestPop == Building /\ Pop

TestPopPanic == Building /\ PopPanic

TestSetTail == Building /\ SetTail(MaxTestMut)

TestGc == Building /\ Gc

TestGcBegin == Building /\ GcBegin

NextTest ==
  \/ TestPushInt
  \/ TestPushPair
  \/ TestPushPairPanic
  \/ TestPop
  \/ TestPopPanic
  \/ TestSetTail
  \/ TestGc

SpecTest == Init /\ [][NextTest]_vars

\* the same runs with their gc taken one call of Object::mark at a time
NextSteps ==
  \/ TestPushInt
  \/ TestPushPair
  \/ TestPushPairPanic
  \/ TestPop
  \/ TestPopPanic
  \/ TestSetTail
  \/ TestGcBegin
  \/ MarkStep
  \/ GcEnd

\* gc is synchronous: once called it runs to completion
SpecSteps ==
  Init /\ [][NextSteps]_vars /\ WF_vars(MarkStep) /\ WF_vars(GcEnd)

\* --------------------------------------------------------------------------
\* Runs on a new VM that never call gc themselves (the shape of perftest
\* before its final gc): collections come from allocations only.
NextFresh ==
  \/ PushInt(MaxFreshObjs)
  \/ PushPair(MaxFreshObjs)
  \/ PushPairPanic
  \/ Pop
  \/ PopPanic

SpecFresh == Init /\ [][NextFresh]_vars

\* ------------------------------------------------------------------ claims
InHeap(v, o) == o \in Range(v.heap)

OnCycle(os, o) == o \in ReachFrom(os, Children(os, o))

Allocs == {"push_int", "push_pair"}

\* C1: in every state reached by push_int, push_pair, pop and gc alone (no
\* field mutation), every object reachable from the stack through Pair edges
\* is in heap.
C1_ReachableInHeap ==
  muts = 0 => Reach(vm) \subseteq Range(heap)

\* C2: on return of every gc, explicit or triggered by an allocation, every
\* object left in heap is reachable from the stack; with an empty stack an
\* explicit gc leaves heap empty.
C2_HeapReachableAfterGc ==
  /\ lastgc.ran => Range(lastgc.post.heap) \subseteq Reach(lastgc.post)
  /\ (op = "gc" /\ stack = <<>>) => heap = <<>>

C2_Witness ==
  /\ op = "gc" /\ lastgc.ran /\ stack = <<>> /\ heap = <<>>
  /\ Len(lastgc.pre.heap) >= 2
  /\ lastgc.prior >= 0
  /\ Len(objs) > Len(lastgc.pre.heap)

\* C3: every stack entry is in heap in every reachable state, and after
\* pushing N leaves (nothing ever popped) and collecting, heap holds N objects.
C3_StackInHeap ==
  /\ Range(stack) \subseteq Range(heap)
  /\ (op = "gc" /\ Len(stack) = Len(objs)) => Len(heap) = Len(objs)

C3_Witness ==
  /\ lastgc.ran
  /\ Len(stack) >= 2
  /\ Len(lastgc.post.heap) < Len(lastgc.pre.heap)

\* C4: the object an allocation returns is the top of the stack, is in heap
\* and is unmarked, also when the allocation ran a collection; and an object
\* that stays on the stack across a step stays in heap across it.
C4_AllocRooted ==
  /\ [](((op \in Allocs) /\ ~panicked) =>
          /\ ret = stack[Len(stack)]
          /\ InHeap(vm, ret)
          /\ ~objs[ret].marked)
  /\ [][\A o \in Range(stack) \cap Range(stack') : o \in Range(heap')]_vars

C4_Witness ==
  /\ op \in Allocs /\ ~panicked /\ lastgc.ran
  /\ Len(lastgc.post.heap) < Len(lastgc.pre.heap)
  /\ Len(stack) >= 2
  /\ ret = stack[Len(stack)] /\ InHeap(vm, ret)

\* C5: on return of a gc, no object that lies on a cycle of Pair edges and is
\* unreachable from the stack is in heap.
C5_UnrootedCycleSwept ==
  lastgc.ran =>
    \A o \in DOMAIN lastgc.post.objs :
      (OnCycle(lastgc.post.objs, o) /\ o \notin Reach(lastgc.post))
        => ~InHeap(lastgc.post, o)

\* a gc swept two pairs whose tails are each other
C5_Witness ==
  /\ lastgc.ran
  /\ \E a, b \in DOMAIN lastgc.post.objs :
       /\ a # b
       /\ lastgc.post.objs[a].val.tag = "Pair"
       /\ lastgc.post.objs[b].val.tag = "Pair"
       /\ lastgc.post.objs[a].val.tail = b
       /\ lastgc.post.objs[b].val.tail = a
       /\ {a, b} \cap Reach(lastgc.post) = {}
       /\ {a, b} \subseteq Range(lastgc.pre.heap)
       /\ {a, b} \cap Range(lastgc.post.heap) = {}

\* C6: gc terminates on every object graph; a call of Object::mark on a
\* marked object returns at once, a call that goes on to the children has set
\* the mark bit first, and no mark bit is set twice in one mark phase.
C6_MarkTerminates ==
  /\ (pc = "mark") ~> (pc = "idle")
  /\ [](\A o \in DOMAIN markCount : markCount[o] <= 1)
  /\ [][(pc = "mark" /\ pc' = "mark") =>
          LET obj == Head(pending)
          IN IF objs[obj].marked
             THEN objs' = objs /\ pending' = Tail(pending)
             ELSE objs'[obj].marked]_vars

\* the traversal comes back to a marked member of a cycle
C6_Witness ==
  /\ pc = "mark"
  /\ pending # <<>>
  /\ objs[Head(pending)].marked
  /\ OnCycle(objs, Head(pending))
  /\ markCount[Head(pending)] = 1

\* the stepwise gc computes what gc computes
StepsAgree ==
  [][(pc = "mark" /\ pc' = "idle") => vm' = gc(lastgc.pre)]_vars

\* the state of test4 with the tails of a and b pointed at each other, right
\* after its gc: objects 1, 2 and 4, 5 are the leaves, 3 is a, 6 is b
RootedCycle ==
  /\ op = "gc"
  /\ lastgc.pre.heap = <<1, 2, 3, 4, 5, 6>>
  /\ stack = <<3, 6>>
  /\ \A o \in {1, 2, 4, 5} : objs[o].val.tag = "Int"
  /\ objs[3].val = Vobject_Pair(1, 6)
  /\ objs[6].val = Vobject_Pair(4, 3)

\* C7 as stated: after the gc of the rooted cycle heap holds 6 objects.
C7_RootedCycleSix ==
  RootedCycle => Len(heap) = 6

\* C7 amended: after the gc of the rooted cycle heap holds 4 objects, the two
\* pairs and their two heads; the two leaves that were the tails are swept.
C7_RootedCycleFour ==
  RootedCycle => (Len(heap) = 4 /\ Range(heap) = {1, 3, 4, 6})

C7_Witness ==
  RootedCycle /\ muts = 2 /\ lastgc.pre.heap_max = INITIAL_GC_THRESHOLD

\* C8: on return of every gc, heap_max is twice the number of objects left
\* in heap.
C8_ThresholdTwiceLive ==
  lastgc.ran => lastgc.post.heap_max = 2 * Len(lastgc.post.heap)

\* C9: an allocation that runs a collection finds at least 2*L objects in
\* heap, L being the number of objects the previous gc left in heap.
C9_NoEarlyTrigger ==
  (op \in Allocs /\ lastgc.ran /\ lastgc.prior >= 0)
    => Len(lastgc.pre.heap) >= 2 * lastgc.prior

C9_Witness ==
  /\ op \in Allocs /\ lastgc.ran
  /\ lastgc.prior >= 1
  /\ Len(lastgc.pre.heap) > lastgc.prior

\* C10: a gc that directly follows a gc leaves heap as it was.
C10_GcTwiceSameHeap ==
  [][(op = "gc" /\ op' = "gc") => heap' = heap]_vars

\* a step that allocates an object
AllocStep == Len(objs') = Len(objs) + 1

\* C11: push_pair on a stack of at least two entries builds Pair(head, tail)
\* with tail the previous top and head the entry below it, and leaves the
\* previous stack without its top two entries plus the new pair on top.
C11_PushPairOperands ==
  [][(op' = "push_pair" /\ AllocStep) =>
       LET n == Len(stack)
       IN /\ n >= 2
          /\ objs'[ret'].val = Vobject_Pair(stack[n - 1], stack[n])
          /\ stack' = Append(SubSeq(stack, 1, n - 2), ret')
          /\ Len(stack') = n - 1]_vars

\* a push_pair over an entry that stays below, its tail the later operand
C11_Witness ==
  /\ op = "push_pair" /\ ~panicked
  /\ Len(stack) >= 2
  /\ ret = stack[Len(stack)]
  /\ objs[ret].val.tag = "Pair"
  /\ objs[ret].val.head < objs[ret].val.tail
  /\ stack[Len(stack) - 1] < objs[ret].val.head

\* C12: the only failure is a pop on an empty stack, which panics: pop
\* panics exactly on an empty stack, push_pair exactly on a stack of fewer
\* than two entries, and push_int and gc never do.
C12_OnlyEmptyPopFails ==
  [][/\ (op' = "pop" /\ (panicked' \/ stack' # stack))
          => (panicked' <=> stack = <<>>)
     /\ (op' = "pop" /\ stack = <<>> /\ ~panicked) => panicked'
     /\ (op' = "push_pair" /\ (panicked' \/ AllocStep))
          => (panicked' <=> Len(stack) < 2)
     /\ (op' \in {"push_int", "gc", "set_tail"}) => ~panicked']_vars

C12_Witness ==
  /\ panicked /\ op = "pop" /\ stack = <<>> /\ Len(objs) >= 1

\* C13: an allocation runs a collection exactly when heap.len() >= heap_max
\* holds before the new object is added; the new object is added after the
\* collection, which does not see it; pop runs no collection.
C13_TriggerBeforeAdd ==
  [][/\ (op' \in Allocs /\ AllocStep) =>
          /\ lastgc'.ran <=> (Len(heap) >= heap_max)
          /\ lastgc'.ran =>
                /\ ret' \notin DOMAIN lastgc'.post.objs
                /\ lastgc'.pre.heap = heap
                /\ heap' = Append(lastgc'.post.heap, ret')
     /\ (op' = "pop") => (~lastgc'.ran /\ heap' = heap
                           /\ heap_max' = heap_max)]_vars

\* an allocation that collected with heap.len() equal to heap_max
C13_Witness ==
  /\ op \in Allocs /\ lastgc.ran
  /\ Len(lastgc.pre.heap) = lastgc.pre.heap_max
  /\ lastgc.pre.heap_max >= 2
  /\ heap = Append(lastgc.post.heap, ret)

\* C14: between operations every object in heap is unmarked.
C14_HeapUnmarked ==
  \A o \in Range(heap) : ~objs[o].marked

\* a gc kept objects it had marked
C14_Witness ==
  /\ lastgc.ran /\ op = "gc"
  /\ Len(heap) >= 2
  /\ Len(heap) < Len(lastgc.pre.heap)

\* C15: on return of every gc in a run of push_int, push_pair, pop and gc,
\* no object reachable from the stack is marked.
C15_ReachableUnmarked ==
  (muts = 0 /\ lastgc.ran) =>
    \A o \in Reach(lastgc.post) : ~lastgc.post.objs[o].marked

\* C16: a gc that leaves heap empty leaves heap_max = 0.
C16_EmptyHeapZeroThreshold ==
  (lastgc.ran /\ lastgc.post.heap = <<>>) => lastgc.post.heap_max = 0

\* C17: objects leave heap only in a gc: pop removes the top stack entry and
\* changes nothing else, an allocation that runs no collection adds its one
\* object to heap and leaves heap_max alone, and gc leaves the stack alone.
C17_Frame ==
  [][/\ (op' = "pop" /\ ~panicked') =>
          /\ heap' = heap /\ heap_max' = heap_max /\ objs' = objs
          /\ (stack' # stack =>
                /\ stack' = SubSeq(stack, 1, Len(stack) - 1)
                /\ ret' = stack[Len(stack)])
     /\ (op' \in Allocs /\ AllocStep /\ ~lastgc'.ran) =>
          /\ heap' = Append(heap, ret')
          /\ heap_max' = heap_max
     /\ (op' = "gc") => stack' = stack
     /\ (~lastgc'.ran) => Range(heap) \subseteq Range(heap')]_vars

\* a pop of an object that stays in heap
C17_Witness ==
  /\ op = "pop" /\ ~panicked
  /\ ret # 0
  /\ InHeap(vm, ret)
  /\ ret \notin Reach(vm)

\* C18 as stated: between operations heap.len() <= heap_max.
C18_HeapWithinThreshold ==
  Len(heap) <= heap_max

\* C18 amended: between operations heap.len() <= heap_max, except that heap
\* holds one object while heap_max is 0.
C18_HeapWithinThresholdOrOne ==
  Len(heap) <= (IF heap_max = 0 THEN 1 ELSE heap_max)

C18_Witness ==
  /\ heap_max = 0 /\ Len(heap) = 1 /\ op = "push_int"

\* C19: an allocation never lowers heap_max, and one that runs a collection
\* at least doubles it.
C19_TriggeredGcDoubles ==
  [][(op' \in Allocs /\ AllocStep) =>
       /\ heap_max' >= heap_max
       /\ lastgc'.ran => heap_max' >= 2 * heap_max]_vars

\* an allocation whose collection swept objects and raised a positive
\* threshold
C19_Witness ==
  /\ op \in Allocs /\ lastgc.ran
  /\ lastgc.pre.heap_max >= 2
  /\ Len(lastgc.post.heap) < Len(lastgc.pre.heap)
  /\ heap_max >= 2 * lastgc.pre.heap_max

\* C20: a new VM has an empty stack, an empty heap and heap_max = 10; in a
\* run that never calls gc itself the first 10 allocations run no collection
\* and the 11th does.
C20_FirstTriggerAtEleventh ==
  /\ op = "new" => (stack = <<>> /\ heap = <<>> /\ heap_max = 10)
  /\ Len(objs) <= 10 => (~lastgc.ran /\ lastLive = -1 /\ heap_max = 10
                           /\ Len(heap) = Len(objs))
  /\ (op \in Allocs /\ ret = 11) => (lastgc.ran /\ lastgc.prior = -1)

\* the 11th allocation, made with fewer than 10 objects on the stack
C20_Witness ==
  /\ op \in Allocs /\ ret = 11 /\ lastgc.ran
  /\ Len(lastgc.pre.heap) = 10
  /\ Len(lastgc.post.heap) < 10

====
